---- MODULE Spec2Model ----
(***************************************************************************)
(* A model of src/index.js: the Express application that joins a Supabase  *)
(* identity provider with a Prisma relational store (User, Post, Comment). *)
(*                                                                         *)
(* Every request is a task held in a slot of req.  A handler runs without  *)
(* preemption from one await to the next, so each action below is one such *)
(* segment: the awaited provider or store call takes effect and the code   *)
(* that follows it runs up to the next await or to the response.           *)
(***************************************************************************)
EXTENDS Naturals, Sequences, FiniteSets, TLC

\* The number of requests the server receives in one run.
MaxReqs == 3
\* The number of requests that can be in flight at the same time.
NumSlots == 2

ReqIds == 1..NumSlots

(***************************************************************************)
(* JavaScript values of the request body: undefined, or a string.  A       *)
(* string is named by a number; 0 names the empty string.                  *)
(***************************************************************************)
Undefined == [t |-> "undefined", v |-> 0]
Str(k) == [t |-> "string", v |-> k]

\* Falsy that lets the empty string pass.
FalsyOnlyUndefined(x) == x.t = "undefined"

\* JavaScript's !x for the values above.
Falsy(x) == x.t = "undefined" \/ (x.t = "string" /\ x.v = 0)

\* const adminEmails = ['rajakronaldo@gmail.com'];
adminEmails == {"rajakronaldo@gmail.com"}

\* IsAdmin without the allow-list.
IsAdminAnyone(email) == TRUE

\* adminEmails.includes(req.user.email)
IsAdmin(email) == email \in adminEmails

\* The values of email and password in a signup or signin body.  The
\* provider refuses to register the empty password.
Emails == {"rajakronaldo@gmail.com", "a@x.com"}
Passwords == {"secret", ""}

\* The request bodies of POST /post: <<title, content>>.
PostBodies ==
    {<<Str(1), Str(1)>>, <<Undefined, Str(1)>>, <<Str(0), Str(1)>>,
     <<Str(1), Str(0)>>, <<Str(1), Undefined>>}

\* The request bodies of POST /comment: <<content, postId>>.  A postId names
\* the post with that id; ids are issued from 1, so 2 names no post until a
\* second post exists.
CommentBodies ==
    {<<Str(1), Str(1)>>, <<Str(1), Str(2)>>, <<Str(1), Undefined>>,
     <<Str(1), Str(0)>>, <<Str(0), Str(1)>>, <<Undefined, Str(1)>>}

\* The :id of GET /post/:id.
PostIdParams == {1, 2}

(***************************************************************************)
(* The Authorization header: a sequence of words and single spaces; <<>>   *)
(* is the absent header.                                                   *)
(***************************************************************************)
Headers ==
    {<<>>, <<"Bearer">>, <<"Bearer", " ", "tok1">>, <<"Bearer", " ", "tok2">>,
     <<"Bearer", " ", "bad">>, <<"Bearer", " ", " ", "tok1">>,
     <<"Basic", " ", "tok1">>}

\* The requests to POST /post and POST /comment, <<header, body, authorId>>:
\* every header with a body that passes validation, every body with the
\* header that carries the first account's token, and with that header a
\* body that has, next to the fields the handler reads, an authorId naming
\* the second account.
PostRequests ==
    (Headers \X {<<Str(1), Str(1)>>} \X {Undefined})
        \cup ({<<"Bearer", " ", "tok1">>} \X PostBodies \X {Undefined})
        \cup {<<(<<"Bearer", " ", "tok1">>), (<<Str(1), Str(1)>>), Str(2)>>}

CommentRequests ==
    (Headers \X {<<Str(1), Str(1)>>} \X {Undefined})
        \cup ({<<"Bearer", " ", "tok1">>} \X CommentBodies \X {Undefined})
        \cup {<<(<<"Bearer", " ", "tok1">>), (<<Str(1), Str(1)>>), Str(2)>>}

\* The requests to GET /admin/user/:email, <<header, email>>.
AdminUserRequests ==
    (Headers \X {"a@x.com"})
        \cup ({<<"Bearer", " ", "tok1">>} \X Emails)

\* authHeader.split(' '): the segments between the spaces, "" between two
\* adjacent spaces.
RECURSIVE SplitFrom(_, _, _, _)
SplitFrom(h, i, cur, out) ==
    IF i > Len(h) THEN Append(out, cur)
    ELSE IF h[i] = " " THEN SplitFrom(h, i + 1, "", Append(out, cur))
    ELSE SplitFrom(h, i + 1, h[i], out)

Split(h) == SplitFrom(h, 1, "", <<>>)

\* TokenOf that takes the first segment.
TokenOfFirst(h) == IF Len(Split(h)) >= 1 THEN Split(h)[1] ELSE ""

\* authHeader.split(' ')[1]; "" stands for undefined and for the empty
\* string alike, both of which !token rejects.
TokenOf(h) == IF Len(Split(h)) >= 2 THEN Split(h)[2] ELSE ""

\* The provider user id a bearer token was issued for (0: for none).
TokenOwner(tok) ==
    CASE tok = "tok1" -> 1
      [] tok = "tok2" -> 2
      [] OTHER -> 0

\* req.user before the middleware sets it, and a null user.
NoUser == [id |-> 0, email |-> ""]

VARIABLES
    accounts,   \* the identity provider's accounts: [id, email, password]
    users,      \* the relational store's User rows: [id, email]
    posts,      \* Post rows: [id, title, content, authorId]
    comments,   \* Comment rows: [id, content, authorId, postId]
    req,        \* the request held in each slot
    started,    \* the number of requests received so far
    shutdown    \* the SIGINT handler: its two calls and process.exit()

vars == <<accounts, users, posts, comments, req, started, shutdown>>

(***************************************************************************)
(* A request: its inputs (route .. paramEmail), the handler's locals       *)
(* (token, user, authId), its response (status, success, error, userId)    *)
(* and a record of what it did: the provider's verdict on its token,       *)
(* whether the middleware called next() or responded itself, the rows and  *)
(* accounts it created (wrote), the listings it fetched, and whether the   *)
(* account and the local row it is about existed when it arrived.          *)
(***************************************************************************)
IdleReq ==
    [route |-> "none", pc |-> "idle",
     email |-> "", password |-> "", header |-> <<>>,
     title |-> Undefined, content |-> Undefined, postId |-> Undefined,
     authorId |-> Undefined,
     paramId |-> 0, paramEmail |-> "",
     token |-> "", user |-> NoUser, authId |-> 0,
     status |-> 0, success |-> "none", error |-> "", userId |-> 0,
     verdict |-> "none", nextCalled |-> FALSE, mwResponded |-> FALSE,
     wrote |-> {}, fetched |-> {}, data |-> {}, seen |-> <<>>,
     hadAccount |-> FALSE, hadUser |-> FALSE]

\* Respond with a body that lacks the success flag.
RespondNoFlag(rec, status, error) ==
    [rec EXCEPT !.pc = "done", !.status = status, !.error = error]

\* res.status(status).json({success, error}) of a route handler.
Respond(rec, status, error) ==
    [rec EXCEPT !.pc = "done", !.status = status, !.success = "false",
                !.error = error]

\* res.json({success: true, ...}) of a route handler: status 200.
RespondOk(rec) ==
    [rec EXCEPT !.pc = "done", !.status = 200, !.success = "true"]

\* res.status(401).json({error}) of the middleware: no success field.
MwRespond(rec, error) ==
    [rec EXCEPT !.pc = "done", !.status = 401, !.error = error,
                !.mwResponded = TRUE]

\* No SIGINT so far: neither call is made.
NoShutdown ==
    [signalled |-> FALSE, disconnect |-> "idle", signOut |-> "idle",
     exited |-> FALSE]

Init ==
    /\ accounts \in
         {{}, {[id |-> 1, email |-> "a@x.com", password |-> "secret"]}}
    /\ users = {}
    /\ posts = {}
    /\ comments = {}
    /\ req = [r \in ReqIds |-> IdleReq]
    /\ started = 0
    /\ shutdown = NoShutdown

(***************************************************************************)
(* The identity provider (Supabase Auth), an external service.             *)
(***************************************************************************)

\* supabase.auth.getUser(token): what the call can come back with.  "user":
\* {data: {user}, error: null}, for a token issued for an existing account;
\* "error": {data: {user: null}, error}; "nouser": {data: {user: null},
\* error: null}; "throw": the call rejects.
GetUserVerdicts(tok) ==
    {"error", "nouser", "throw"}
        \cup (IF \E a \in accounts : a.id = TokenOwner(tok) THEN {"user"} ELSE {})

\* data.user of getUser, by verdict.
GetUserData(tok, verdict) ==
    IF verdict = "user"
    THEN LET a == CHOOSE a \in accounts : a.id = TokenOwner(tok)
         IN  [id |-> a.id, email |-> a.email]
    ELSE NoUser

\* SignUpAccepts of a provider that registers an email it already holds.
SignUpAcceptsDuplicates(email, password) == password # ""

\* supabase.auth.signUp({email, password}) registers the account: the
\* provider refuses an empty password and an email it already holds.
SignUpAccepts(email, password) ==
    /\ password # ""
    /\ ~ \E a \in accounts : a.email = email

\* The id the provider issues to the next account.
NewAccountId == Cardinality(accounts) + 1

\* supabase.auth.signInWithPassword({email, password}): the accounts the
\* credentials match.
SignInMatches(email, password) ==
    {a \in accounts : a.email = email /\ a.password = password}

\* data of supabase.auth.admin.listUsers(...): an object {users: [...]}, as
\* GET /admin/users reads it (supabaseUsers.users), not an array.
ListUsersData(email) ==
    [kind |-> "object", n |-> Cardinality({a \in accounts : a.email = email})]

\* existingUser?.length > 0: length is undefined on an object that is no
\* array, and undefined > 0 is false.
LengthPositive(data) == data.kind = "array" /\ data.n > 0

(***************************************************************************)
(* The relational store (Prisma over Postgres), per the schema.            *)
(***************************************************************************)

\* prisma.user.findUnique({where: {email}})
UserByEmail(email) == {u \in users : u.email = email}

\* prisma.user.findUnique({where: {id}})
UserById(id) == {u \in users : u.id = id}

\* prisma.user.create succeeds: id is @id and email is @unique.
UserCreateOk(id, email) ==
    /\ UserById(id) = {}
    /\ UserByEmail(email) = {}

\* prisma.post.findUnique({where: {id: postId}})
PostById(postId) == {p \in posts : postId.t = "string" /\ p.id = postId.v}

\* AuthorId that prefers the authorId of the request body.
AuthorIdFromBody(rec) ==
    IF rec.authorId.t = "string" THEN rec.authorId.v ELSE rec.user.id

\* authorId: req.user.id, the author of the row a handler creates.
AuthorId(rec) == rec.user.id

\* PostCreateOk of a schema without the author relation.
PostCreateOkNoRelation(authorId) == TRUE

\* prisma.post.create succeeds: authorId references User.id.
PostCreateOk(authorId) == UserById(authorId) # {}

\* NotFound of a handler that does not test the row it looked up.
NotFoundUnchecked(found) == FALSE

\* if (!post): findUnique found no row.
NotFound(found) == found = {}

\* SignupUserRow with an id that is not the provider's.
SignupUserRowLocalId(rec) == [id |-> rec.authId + 1, email |-> rec.email]

\* The row POST /signup creates: {id: authData.user.id, email}.
SignupUserRow(rec) == [id |-> rec.authId, email |-> rec.email]

\* prisma.comment.create succeeds: authorId references User.id and postId
\* references Post.id.
CommentCreateOk(authorId, postId) ==
    /\ UserById(authorId) # {}
    /\ PostById(postId) # {}

(***************************************************************************)
(* The route handlers, from their entry to their first await.              *)
(***************************************************************************)

\* The handler the middleware's next() enters, run to its first await.
\* Reading req.user.id or req.user.email of a null user throws a TypeError,
\* which the handler's catch answers with 500.
HandlerEntry(rec) ==
    CASE rec.route = "post" ->
            IF Falsy(rec.title) \/ Falsy(rec.content)
            THEN Respond(rec, 400, "Title and content are required")
            ELSE IF rec.user = NoUser
            THEN Respond(rec, 500, "Cannot read properties of null")
            ELSE [rec EXCEPT !.pc = "post_create"]
      [] rec.route = "comment" ->
            IF Falsy(rec.content) \/ Falsy(rec.postId)
            THEN Respond(rec, 400, "Content and postId are required")
            ELSE [rec EXCEPT !.pc = "comment_find"]
      [] rec.route \in {"admin_users", "admin_user"} ->
            IF rec.user = NoUser
            THEN Respond(rec, 500, "Cannot read properties of null")
            ELSE IF ~IsAdmin(rec.user.email)
            THEN Respond(rec, 403, "Unauthorized: Admin access required")
            ELSE [rec EXCEPT !.pc = IF rec.route = "admin_users"
                                    THEN "admin_users_list"
                                    ELSE "admin_user_list"]

(***************************************************************************)
(* authenticateUser.                                                       *)
(***************************************************************************)

\* From the middleware's entry to its await of getUser.
MwEntry(rec) ==
    IF rec.header = <<>>
    THEN MwRespond(rec, "No authorization header")
    ELSE IF TokenOf(rec.header) = ""
    THEN MwRespond(rec, "No token provided")
    ELSE [rec EXCEPT !.token = TokenOf(rec.header), !.pc = "mw_getUser"]

\* AfterGetUser without the return in front of its 'Invalid token' response.
AfterGetUserNoReturn(rec, verdict, user) ==
    CASE verdict = "throw" ->
            MwRespond([rec EXCEPT !.verdict = verdict], "Authentication failed")
      [] verdict = "error" ->
            MwRespond([rec EXCEPT !.verdict = verdict, !.user = user,
                                  !.nextCalled = TRUE], "Invalid token")
      [] OTHER ->
            HandlerEntry([rec EXCEPT !.verdict = verdict, !.user = user,
                                     !.nextCalled = TRUE])

\* AfterGetUser without its if (error).
AfterGetUserNoErrorCheck(rec, verdict, user) ==
    CASE verdict = "throw" ->
            MwRespond([rec EXCEPT !.verdict = verdict], "Authentication failed")
      [] OTHER ->
            HandlerEntry([rec EXCEPT !.verdict = verdict, !.user = user,
                                     !.nextCalled = TRUE])

\* From getUser's return to the end of the middleware: req.user = user and
\* next(), which runs the route handler to its first await.
AfterGetUser(rec, verdict, user) ==
    CASE verdict = "throw" ->
            MwRespond([rec EXCEPT !.verdict = verdict], "Authentication failed")
      [] verdict = "error" ->
            MwRespond([rec EXCEPT !.verdict = verdict], "Invalid token")
      [] OTHER ->
            HandlerEntry([rec EXCEPT !.verdict = verdict, !.user = user,
                                     !.nextCalled = TRUE])

(***************************************************************************)
(* The arrival of a request.                                               *)
(***************************************************************************)

Free(r) == req[r].pc \in {"idle", "done"}

\* A request arrives and takes the first free slot.
Begin(r, rec) ==
    /\ started < MaxReqs
    /\ Free(r)
    /\ \A q \in ReqIds : q < r => ~Free(q)
    /\ req' = [req EXCEPT ![r] = rec]
    /\ started' = started + 1
    /\ UNCHANGED <<accounts, users, posts, comments, shutdown>>

StartSignup(r) ==
    \E e \in Emails, p \in Passwords :
        Begin(r, [IdleReq EXCEPT !.route = "signup", !.pc = "signup_list",
                    !.email = e, !.password = p,
                    !.hadAccount = (\E a \in accounts : a.email = e),
                    !.hadUser = (UserByEmail(e) # {})])

StartSignin(r) ==
    \E e \in Emails, p \in Passwords :
        Begin(r, [IdleReq EXCEPT !.route = "signin", !.pc = "signin_auth",
                    !.email = e, !.password = p,
                    !.hadAccount = (SignInMatches(e, p) # {}),
                    !.hadUser = (\E a \in SignInMatches(e, p) :
                                    UserById(a.id) # {})])

StartPost(r) ==
    \E i \in PostRequests :
        Begin(r, MwEntry([IdleReq EXCEPT !.route = "post", !.header = i[1],
                            !.title = i[2][1], !.content = i[2][2],
                            !.authorId = i[3]]))

StartComment(r) ==
    \E i \in CommentRequests :
        Begin(r, MwEntry([IdleReq EXCEPT !.route = "comment", !.header = i[1],
                            !.content = i[2][1], !.postId = i[2][2],
                            !.authorId = i[3]]))

StartGetPost(r) ==
    \E id \in PostIdParams :
        Begin(r, [IdleReq EXCEPT !.route = "get_post", !.pc = "get_post_find",
                    !.paramId = id])

StartAdminUsers(r) ==
    \E h \in Headers :
        Begin(r, MwEntry([IdleReq EXCEPT !.route = "admin_users",
                            !.header = h]))

StartAdminUser(r) ==
    \E i \in AdminUserRequests :
        Begin(r, MwEntry([IdleReq EXCEPT !.route = "admin_user",
                            !.header = i[1], !.paramEmail = i[2]]))

\* await supabase.auth.getUser(token) returns.
MwGetUserReturn(r) ==
    /\ req[r].pc = "mw_getUser"
    /\ \E v \in GetUserVerdicts(req[r].token) :
         req' = [req EXCEPT ![r] =
                    AfterGetUser(req[r], v, GetUserData(req[r].token, v))]
    /\ UNCHANGED <<accounts, users, posts, comments, started, shutdown>>

(***************************************************************************)
(* POST /signup.                                                           *)
(***************************************************************************)

DuplicateUser == "User already exists with this email. Please login instead."

\* await supabase.auth.admin.listUsers({filters: {email}}) returns.
SignupListReturn(r) ==
    /\ req[r].pc = "signup_list"
    /\ req' = [req EXCEPT ![r] =
                 IF LengthPositive(ListUsersData(req[r].email))
                 THEN Respond(req[r], 400, DuplicateUser)
                 ELSE [req[r] EXCEPT !.pc = "signup_find"]]
    /\ UNCHANGED <<accounts, users, posts, comments, started, shutdown>>

\* await prisma.user.findUnique({where: {email}}) returns.
SignupFindReturn(r) ==
    /\ req[r].pc = "signup_find"
    /\ req' = [req EXCEPT ![r] =
                 IF UserByEmail(req[r].email) # {}
                 THEN Respond(req[r], 400, DuplicateUser)
                 ELSE [req[r] EXCEPT !.pc = "signup_signUp"]]
    /\ UNCHANGED <<accounts, users, posts, comments, started, shutdown>>

\* await supabase.auth.signUp({email, password}) returns.
SignupSignUpReturn(r) ==
    /\ req[r].pc = "signup_signUp"
    /\ IF SignUpAccepts(req[r].email, req[r].password)
       THEN /\ accounts' = accounts \cup
                    {[id |-> NewAccountId, email |-> req[r].email,
                      password |-> req[r].password]}
            /\ req' = [req EXCEPT ![r] =
                         [req[r] EXCEPT !.pc = "signup_create",
                                        !.authId = NewAccountId,
                                        !.wrote = @ \cup {"account"}]]
       ELSE /\ accounts' = accounts
            /\ req' = [req EXCEPT ![r] =
                         Respond(req[r], 500, "provider: signup refused")]
    /\ UNCHANGED <<users, posts, comments, started, shutdown>>

\* SignupCreateReturn with a handler that throws while it builds the
\* response, after the row is created.
SignupCreateReturnThrowsAfter(r) ==
    /\ req[r].pc = "signup_create"
    /\ IF UserCreateOk(SignupUserRow(req[r]).id, SignupUserRow(req[r]).email)
       THEN /\ users' = users \cup {SignupUserRow(req[r])}
            /\ req' = [req EXCEPT ![r] =
                         Respond([req[r] EXCEPT !.wrote = @ \cup {"user"}],
                                 500, "Cannot read properties of undefined")]
       ELSE /\ users' = users
            /\ req' = [req EXCEPT ![r] =
                         Respond(req[r], 500, "store: unique constraint failed")]
    /\ UNCHANGED <<accounts, posts, comments, started, shutdown>>

\* await prisma.user.create({data: {id: authData.user.id, email}}) returns.
SignupCreateReturn(r) ==
    /\ req[r].pc = "signup_create"
    /\ IF UserCreateOk(SignupUserRow(req[r]).id, SignupUserRow(req[r]).email)
       THEN /\ users' = users \cup
                    {SignupUserRow(req[r])}
            /\ req' = [req EXCEPT ![r] =
                         RespondOk([req[r] EXCEPT !.userId = SignupUserRow(req[r]).id,
                                                  !.wrote = @ \cup {"user"}])]
       ELSE /\ users' = users
            /\ req' = [req EXCEPT ![r] =
                         Respond(req[r], 500, "store: unique constraint failed")]
    /\ UNCHANGED <<accounts, posts, comments, started, shutdown>>

(***************************************************************************)
(* POST /signin.                                                           *)
(***************************************************************************)

\* await supabase.auth.signInWithPassword({email, password}) returns.
SigninAuthReturn(r) ==
    /\ req[r].pc = "signin_auth"
    /\ req' = [req EXCEPT ![r] =
                 IF SignInMatches(req[r].email, req[r].password) # {}
                 THEN [req[r] EXCEPT !.pc = "signin_find",
                          !.authId = (CHOOSE a \in SignInMatches(req[r].email,
                                                     req[r].password) : TRUE).id]
                 ELSE Respond(req[r], 500, "provider: invalid login credentials")]
    /\ UNCHANGED <<accounts, users, posts, comments, started, shutdown>>

\* await prisma.user.findUnique({where: {id: authData.user.id}}) returns.
SigninFindReturn(r) ==
    /\ req[r].pc = "signin_find"
    /\ req' = [req EXCEPT ![r] =
                 IF UserById(req[r].authId) # {}
                 THEN RespondOk([req[r] EXCEPT !.userId =
                          (CHOOSE u \in UserById(req[r].authId) : TRUE).id])
                 ELSE [req[r] EXCEPT !.pc = "signin_create"]]
    /\ UNCHANGED <<accounts, users, posts, comments, started, shutdown>>

\* await prisma.user.create({data: {id: authData.user.id, email}}) returns.
SigninCreateReturn(r) ==
    /\ req[r].pc = "signin_create"
    /\ IF UserCreateOk(req[r].authId, req[r].email)
       THEN /\ users' = users \cup
                    {[id |-> req[r].authId, email |-> req[r].email]}
            /\ req' = [req EXCEPT ![r] =
                         RespondOk([req[r] EXCEPT !.userId = req[r].authId,
                                                  !.wrote = @ \cup {"user"}])]
       ELSE /\ users' = users
            /\ req' = [req EXCEPT ![r] =
                         Respond(req[r], 500, "store: unique constraint failed")]
    /\ UNCHANGED <<accounts, posts, comments, started, shutdown>>

(***************************************************************************)
(* POST /post and POST /comment.                                           *)
(***************************************************************************)

\* await prisma.post.create({data: {title, content, authorId: req.user.id}})
\* returns.
PostCreateReturn(r) ==
    /\ req[r].pc = "post_create"
    /\ IF PostCreateOk(AuthorId(req[r]))
       THEN /\ posts' = posts \cup
                    {[id |-> Cardinality(posts) + 1, title |-> req[r].title,
                      content |-> req[r].content,
                      authorId |-> AuthorId(req[r])]}
            /\ req' = [req EXCEPT ![r] =
                         RespondOk([req[r] EXCEPT !.wrote = @ \cup {"post"}])]
       ELSE /\ posts' = posts
            /\ req' = [req EXCEPT ![r] =
                         Respond(req[r], 500, "store: foreign key constraint failed")]
    /\ UNCHANGED <<accounts, users, comments, started, shutdown>>

\* await prisma.post.findUnique({where: {id: postId}}) returns; the data of
\* the create that follows reads req.user.id.
CommentFindReturn(r) ==
    /\ req[r].pc = "comment_find"
    /\ req' = [req EXCEPT ![r] =
                 IF NotFound(PostById(req[r].postId))
                 THEN Respond(req[r], 404, "Post not found")
                 ELSE IF req[r].user = NoUser
                 THEN Respond(req[r], 500, "Cannot read properties of null")
                 ELSE [req[r] EXCEPT !.pc = "comment_create"]]
    /\ UNCHANGED <<accounts, users, posts, comments, started, shutdown>>

\* await prisma.comment.create({data: {content, authorId: req.user.id,
\* postId}, include: ...}) returns.
CommentCreateReturn(r) ==
    /\ req[r].pc = "comment_create"
    /\ IF CommentCreateOk(AuthorId(req[r]), req[r].postId)
       THEN /\ comments' = comments \cup
                    {[id |-> Cardinality(comments) + 1,
                      content |-> req[r].content,
                      authorId |-> AuthorId(req[r]),
                      postId |-> req[r].postId.v]}
            /\ req' = [req EXCEPT ![r] =
                         RespondOk([req[r] EXCEPT !.wrote = @ \cup {"comment"}])]
       ELSE /\ comments' = comments
            /\ req' = [req EXCEPT ![r] =
                         Respond(req[r], 500, "store: foreign key constraint failed")]
    /\ UNCHANGED <<accounts, users, posts, started, shutdown>>

(***************************************************************************)
(* GET /post/:id.                                                          *)
(***************************************************************************)

\* include: {author: {select: {id, email}}, comments: {include: {author:
\* {select: {id, email}}}}}: the post with its author and its comments, each
\* comment with its author.
PostWithIncludes(postId) ==
    {[post |-> p, author |-> UserById(p.authorId),
      comments |-> {[comment |-> c, author |-> UserById(c.authorId)] :
                       c \in {d \in comments : d.postId = p.id}}] :
        p \in PostById(postId)}

\* The answer of GET /post/:id to what findUnique returned; seen is the
\* content of the store when it was read.
GetPostAnswer(rec, found) ==
    IF NotFound(found)
    THEN Respond([rec EXCEPT !.seen = <<users, posts, comments>>],
                 404, "Post not found")
    ELSE RespondOk([rec EXCEPT !.fetched = @ \cup {"post"}, !.data = found,
                      !.seen = <<users, posts, comments>>])

\* GetPostFindReturn of a handler that creates the post it did not find.
GetPostFindReturnUpsert(r) ==
    /\ req[r].pc = "get_post_find"
    /\ req' = [req EXCEPT ![r] =
                 GetPostAnswer(req[r], PostWithIncludes(Str(req[r].paramId)))]
    /\ posts' = IF NotFound(PostById(Str(req[r].paramId)))
                THEN posts \cup {[id |-> req[r].paramId, title |-> Str(1),
                                  content |-> Str(1), authorId |-> 0]}
                ELSE posts
    /\ UNCHANGED <<accounts, users, comments, started, shutdown>>

\* await prisma.post.findUnique({where: {id: postId}, include: ...}) returns.
GetPostFindReturn(r) ==
    /\ req[r].pc = "get_post_find"
    /\ req' = [req EXCEPT ![r] =
                 GetPostAnswer(req[r], PostWithIncludes(Str(req[r].paramId)))]
    /\ UNCHANGED <<accounts, users, posts, comments, started, shutdown>>

(***************************************************************************)
(* GET /admin/users and GET /admin/user/:email.                            *)
(***************************************************************************)

\* await supabaseAdmin.auth.admin.listUsers(...) returns, with or without
\* supabaseError; the same code follows it on both routes.
AdminListReturn(r) ==
    /\ req[r].pc \in {"admin_users_list", "admin_user_list"}
    /\ \E failed \in BOOLEAN :
         req' = [req EXCEPT ![r] =
                    IF failed
                    THEN Respond(req[r], 500, "provider: listing failed")
                    ELSE [req[r] EXCEPT !.fetched = @ \cup {"provider"},
                             !.pc = IF req[r].route = "admin_users"
                                    THEN "admin_users_find"
                                    ELSE "admin_user_find"]]
    /\ UNCHANGED <<accounts, users, posts, comments, started, shutdown>>

\* await prisma.user.findMany() returns.
AdminUsersFindReturn(r) ==
    /\ req[r].pc = "admin_users_find"
    /\ req' = [req EXCEPT ![r] =
                 RespondOk([req[r] EXCEPT !.fetched = @ \cup {"local"}])]
    /\ UNCHANGED <<accounts, users, posts, comments, started, shutdown>>

\* await prisma.user.findUnique({where: {email: userEmail}, include: ...})
\* returns.
AdminUserFindReturn(r) ==
    /\ req[r].pc = "admin_user_find"
    /\ req' = [req EXCEPT ![r] =
                 RespondOk([req[r] EXCEPT !.fetched = @ \cup {"local"}])]
    /\ UNCHANGED <<accounts, users, posts, comments, started, shutdown>>

(***************************************************************************)
(* The server.                                                             *)
(***************************************************************************)

Arrive ==
    \E r \in ReqIds :
        \/ StartSignup(r)
        \/ StartSignin(r)
        \/ StartPost(r)
        \/ StartComment(r)
        \/ StartGetPost(r)
        \/ StartAdminUsers(r)
        \/ StartAdminUser(r)

Resume ==
    \E r \in ReqIds :
        \/ MwGetUserReturn(r)
        \/ SignupListReturn(r)
        \/ SignupFindReturn(r)
        \/ SignupSignUpReturn(r)
        \/ SignupCreateReturn(r)
        \/ SigninAuthReturn(r)
        \/ SigninFindReturn(r)
        \/ SigninCreateReturn(r)
        \/ PostCreateReturn(r)
        \/ CommentFindReturn(r)
        \/ CommentCreateReturn(r)
        \/ GetPostFindReturn(r)
        \/ AdminListReturn(r)
        \/ AdminUsersFindReturn(r)
        \/ AdminUserFindReturn(r)

Next == Arrive \/ Resume

\* Requests interleave at every await.
Spec == Init /\ [][Next]_vars

\* The state after the first account has signed in and written a post.
InitSeeded ==
    /\ accounts = {[id |-> 1, email |-> "a@x.com", password |-> "secret"]}
    /\ users = {[id |-> 1, email |-> "a@x.com"]}
    /\ posts = {[id |-> 1, title |-> Str(1), content |-> Str(1),
                 authorId |-> 1]}
    /\ comments = {}
    /\ req = [r \in ReqIds |-> IdleReq]
    /\ started = 0
    /\ shutdown = NoShutdown

\* Requests interleave at every await, over a store that holds a post.
SpecSeeded == InitSeeded /\ [][Next]_vars

(***************************************************************************)
(* process.on('SIGINT', ...).                                              *)
(***************************************************************************)

\* ExitReady of a handler that awaits the first of the two calls to settle.
ExitReadyAny(s) == s.disconnect = "done" \/ s.signOut = "done"

\* await Promise.all([...]) resumes: both calls have settled.
ExitReady(s) == s.disconnect = "done" /\ s.signOut = "done"

\* The process has not exited: its handlers still run.
Running == ~shutdown.exited

\* SIGINT arrives: the handler builds the array, which calls
\* prisma.$disconnect() and supabase.auth.signOut() one after the other
\* without an await between them, and awaits Promise.all of the two.
Sigint ==
    /\ Running
    /\ ~shutdown.signalled
    /\ shutdown' = [shutdown EXCEPT !.signalled = TRUE,
                       !.disconnect = "pending", !.signOut = "pending"]
    /\ UNCHANGED <<accounts, users, posts, comments, req, started>>

\* prisma.$disconnect() settles.
DisconnectDone ==
    /\ Running
    /\ shutdown.disconnect = "pending"
    /\ shutdown' = [shutdown EXCEPT !.disconnect = "done"]
    /\ UNCHANGED <<accounts, users, posts, comments, req, started>>

\* supabase.auth.signOut() settles.
SignOutDone ==
    /\ Running
    /\ shutdown.signOut = "pending"
    /\ shutdown' = [shutdown EXCEPT !.signOut = "done"]
    /\ UNCHANGED <<accounts, users, posts, comments, req, started>>

\* process.exit(): the requests in flight stay where they are.
Exit ==
    /\ Running
    /\ ExitReady(shutdown)
    /\ shutdown' = [shutdown EXCEPT !.exited = TRUE]
    /\ UNCHANGED <<accounts, users, posts, comments, req, started>>

\* The requests that write to both stores, while the process runs.
ArriveAuth ==
    /\ Running
    /\ \E r \in ReqIds :
        \/ StartSignup(r)
        \/ StartSignin(r)

ResumeAuth ==
    /\ Running
    /\ \E r \in ReqIds :
        \/ SignupListReturn(r)
        \/ SignupFindReturn(r)
        \/ SignupSignUpReturn(r)
        \/ SignupCreateReturn(r)
        \/ SigninAuthReturn(r)
        \/ SigninFindReturn(r)
        \/ SigninCreateReturn(r)

NextShutdown ==
    \/ ArriveAuth
    \/ ResumeAuth
    \/ Sigint
    \/ DisconnectDone
    \/ SignOutDone
    \/ Exit

\* Signups and signins interleaved with one SIGINT.  Each of the two calls
\* settles and the handler resumes when it can; nothing makes a request
\* arrive or progress.
SpecShutdown ==
    /\ Init
    /\ [][NextShutdown]_vars
    /\ WF_vars(DisconnectDone)
    /\ WF_vars(SignOutDone)
    /\ WF_vars(Exit)

\* A request arrives only when no other is in flight.
NoneInFlight == \A r \in ReqIds : Free(r)

NextSeq == (NoneInFlight /\ Arrive) \/ Resume

\* Requests are served one after the other.
SpecSeq == Init /\ [][NextSeq]_vars

(***************************************************************************)
(* Properties.                                                             *)
(***************************************************************************)

Protected(r) == req[r].route \in {"post", "comment", "admin_users", "admin_user"}

Done(r) == req[r].pc = "done"

\* The middleware has finished with the request in slot r.
MwFinished(r) == Protected(r) /\ req[r].pc # "mw_getUser"

C2_Rejected ==
    \A r \in ReqIds :
        (Protected(r) /\ req[r].verdict = "error") =>
            /\ Done(r)
            /\ req[r].status = 401
            /\ ~req[r].nextCalled
            /\ req[r].wrote = {}

\* C2 (step): the step in which the provider's rejection is handled leaves
\* the User, Post and Comment rows as they were.
C2_RejectionStep ==
    \A r \in ReqIds :
        (req[r].verdict = "none" /\ req'[r].verdict = "error") =>
            UNCHANGED <<users, posts, comments>>

\* C2: on every protected route a token that fails provider verification is
\* answered with 401, the handler body never executes, and the User, Post
\* and Comment rows are unchanged.
C2_InvalidTokenRejected == []C2_Rejected /\ [][C2_RejectionStep]_vars

\* A POST /post with a body that passes validation, and a GET /admin/users,
\* both rejected for their token.
C2_Witness ==
    \E r, q \in ReqIds :
        /\ req[r].route = "post" /\ req[r].verdict = "error"
        /\ req[r].title = Str(1) /\ req[r].content = Str(1)
        /\ req[q].route = "admin_users" /\ req[q].verdict = "error"

\* C3: when getUser returns no error and no user, the middleware answers
\* 401 'Invalid token' and does not call next().
C3_NoUserRejected ==
    \A r \in ReqIds :
        (Protected(r) /\ req[r].verdict = "nouser") =>
            /\ req[r].status = 401
            /\ req[r].error = "Invalid token"
            /\ ~req[r].nextCalled

\* The accounts and the rows with an email.
AccountsWith(email) == {a \in accounts : a.email = email}

C5_NoEffectUnlessSuccess ==
    \A r \in ReqIds :
        (req[r].route = "signup" /\ Done(r) /\ req[r].status # 200) =>
            req[r].wrote = {}

\* C5 as amended: a signup that ends in 400 has created nothing, one that
\* ends in 500 has created no User row, and one that ends in 200 has created
\* an account and a User row.
C5_NoRowUnlessSuccess ==
    \A r \in ReqIds :
        (req[r].route = "signup" /\ Done(r)) =>
            /\ req[r].status \in {200, 400, 500}
            /\ req[r].status = 400 => req[r].wrote = {}
            /\ req[r].status = 500 => req[r].wrote \subseteq {"account"}
            /\ req[r].status = 200 => req[r].wrote = {"account", "user"}

\* A signup answered 500 after the provider registered its account.
C5_Witness ==
    \E r \in ReqIds :
        /\ req[r].route = "signup" /\ Done(r)
        /\ req[r].status = 500
        /\ req[r].wrote = {"account"}

\* C6: a signin with credentials the provider accepts, for an account with
\* no User row, is answered 200 with the provider's id, and a User row with
\* that id exists; also when several such signins are in flight.
C6_SigninHeals ==
    \A r \in ReqIds :
        (req[r].route = "signin" /\ Done(r)
            /\ req[r].hadAccount /\ ~req[r].hadUser) =>
                /\ req[r].status = 200
                /\ req[r].userId = req[r].authId
                /\ UserById(req[r].authId) # {}

\* C7: a POST /post that passed the middleware with title or content
\* undefined or empty is answered 400 and creates no Post row; no Post row
\* has such a title or content.
C7_PostValidation ==
    /\ \A r \in ReqIds :
          (req[r].route = "post" /\ req[r].nextCalled
              /\ (req[r].title \in {Undefined, Str(0)}
                    \/ req[r].content \in {Undefined, Str(0)})) =>
                /\ Done(r)
                /\ req[r].status = 400
                /\ req[r].wrote = {}
    /\ \A p \in posts :
          /\ p.title \notin {Undefined, Str(0)}
          /\ p.content \notin {Undefined, Str(0)}

\* An authenticated POST /post with the empty title, answered 400.
C7_Witness ==
    \E r \in ReqIds :
        /\ req[r].route = "post" /\ req[r].verdict = "user"
        /\ req[r].title = Str(0)
        /\ req[r].status = 400

\* C8: a POST /comment that passed the middleware with a non-empty content
\* and a postId of no Post row is answered 404 {success: false, error:
\* 'Post not found'} and creates no Comment row.
C8_CommentPostNotFound ==
    \A r \in ReqIds :
        (req[r].route = "comment" /\ req[r].nextCalled
            /\ req[r].content = Str(1)
            /\ req[r].postId.t = "string" /\ req[r].postId.v > 0
            /\ req[r].pc # "comment_find"
            /\ ~ \E p \in posts : p.id = req[r].postId.v) =>
                /\ Done(r)
                /\ req[r].status = 404
                /\ req[r].success = "false"
                /\ req[r].error = "Post not found"
                /\ req[r].wrote = {}

\* An authenticated POST /comment for post 2, which does not exist, was
\* answered 404 while post 1 exists.
C8_Witness ==
    \E r \in ReqIds :
        /\ req[r].route = "comment" /\ req[r].verdict = "user"
        /\ req[r].postId = Str(2)
        /\ req[r].status = 404
        /\ posts # {}

\* C9: every Post.authorId and Comment.authorId is the id of a User row and
\* every Comment.postId is the id of a Post row.
C9_ReferentialIntegrity ==
    /\ \A p \in posts : \E u \in users : u.id = p.authorId
    /\ \A c \in comments :
          /\ \E u \in users : u.id = c.authorId
          /\ \E p \in posts : p.id = c.postId

\* A caller whose account has no User row asked for a post and was refused
\* by the store, and a Post row exists.
C9_Witness ==
    /\ posts # {}
    /\ \E r \in ReqIds :
          /\ req[r].route = "post" /\ Done(r)
          /\ req[r].verdict = "user"
          /\ req[r].status = 500
          /\ req[r].error = "store: foreign key constraint failed"

\* C10: on both admin routes a caller the middleware authenticated whose
\* email is not in adminEmails is answered 403, and neither the provider's
\* listing nor a local row is fetched for the request.
C10_AdminForbidden ==
    \A r \in ReqIds :
        (req[r].route \in {"admin_users", "admin_user"}
            /\ req[r].nextCalled /\ req[r].verdict = "user"
            /\ req[r].user.email \notin adminEmails) =>
                /\ Done(r)
                /\ req[r].status = 403
                /\ req[r].success = "false"
                /\ req[r].fetched = {}

\* Both admin routes refused an authenticated caller who is no admin.
C10_Witness ==
    \E r, q \in ReqIds :
        /\ req[r].route = "admin_users" /\ req[q].route = "admin_user"
        /\ req[r].verdict = "user" /\ req[q].verdict = "user"
        /\ req[r].status = 403 /\ req[q].status = 403

\* C11 as claimed: every response with a status other than 200 carries
\* success: false and an error message.
C11_FailureEnvelope ==
    \A r \in ReqIds :
        (Done(r) /\ req[r].status # 200) =>
            /\ req[r].success = "false"
            /\ req[r].error # ""

\* C11 as amended: every response with a status other than 200 carries an
\* error message; a route handler's carries success: false with it, the
\* middleware's 401 carries the error message alone.
C11_FailureHasError ==
    \A r \in ReqIds :
        (Done(r) /\ req[r].status # 200) =>
            /\ req[r].error # ""
            /\ req[r].success = IF req[r].mwResponded THEN "none" ELSE "false"
            /\ req[r].mwResponded => req[r].status = 401

\* A 401 of the middleware beside a failure answered by a route handler.
C11_Witness ==
    \E r, q \in ReqIds :
        /\ Done(r) /\ req[r].mwResponded /\ req[r].status = 401
        /\ Done(q) /\ ~req[q].mwResponded /\ req[q].status \in {400, 403, 404, 500}

\* The whitespace-delimited segments of a header: its words.
IsWord(x) == x # " "
Words(h) == SelectSeq(h, IsWord)

\* The middleware forwarded tok to the provider for the request in slot r.
Forwarded(r, tok) ==
    /\ req[r].token = tok
    /\ req[r].pc = "mw_getUser" \/ req[r].verdict # "none"

\* C12 as claimed: without Authorization header the answer is 401 'No
\* authorization header'; with a header that has no second
\* whitespace-delimited segment it is 401 'No token provided'; otherwise
\* the second whitespace-delimited segment is forwarded to the provider.
C12_SecondWordIsToken ==
    \A r \in ReqIds :
        Protected(r) =>
            IF req[r].header = <<>>
            THEN /\ req[r].status = 401
                 /\ req[r].error = "No authorization header"
            ELSE IF Len(Words(req[r].header)) < 2
            THEN /\ req[r].status = 401
                 /\ req[r].error = "No token provided"
            ELSE Forwarded(r, Words(req[r].header)[2])

\* C12 as amended: the segments are those between single spaces.  When the
\* second one is missing or empty the answer is 401 'No token provided';
\* otherwise it is forwarded to the provider, whatever the first is.
C12_SecondSegmentIsToken ==
    \A r \in ReqIds :
        Protected(r) =>
            IF req[r].header = <<>>
            THEN /\ req[r].status = 401
                 /\ req[r].error = "No authorization header"
                 /\ req[r].verdict = "none"
            ELSE IF Len(Split(req[r].header)) < 2 \/ Split(req[r].header)[2] = ""
            THEN /\ req[r].status = 401
                 /\ req[r].error = "No token provided"
                 /\ req[r].verdict = "none"
            ELSE Forwarded(r, Split(req[r].header)[2])

\* A token under the scheme Basic was accepted by the provider, and a header
\* with two spaces after its scheme was answered 'No token provided'.
C12_Witness ==
    \E r, q \in ReqIds :
        /\ req[r].header = <<"Basic", " ", "tok1">>
        /\ req[r].verdict = "user" /\ req[r].user.id = 1
        /\ req[q].header = <<"Bearer", " ", " ", "tok1">>
        /\ req[q].error = "No token provided"

GetPost(r) == req[r].route = "get_post"

\* Two answers of GET /post/:id for the same id, read from the same content
\* of the store, are the same.
C13_SameAnswer ==
    \A r, q \in ReqIds :
        (/\ GetPost(r) /\ Done(r) /\ GetPost(q) /\ Done(q)
         /\ req[r].paramId = req[q].paramId
         /\ req[r].seen = req[q].seen) =>
            /\ req[r].status = req[q].status
            /\ req[r].success = req[q].success
            /\ req[r].error = req[q].error
            /\ req[r].data = req[q].data

\* A step of a GET /post/:id request leaves the rows and the accounts as
\* they are.
C13_ReadStep ==
    \A r \in ReqIds :
        (req'[r] # req[r] /\ req'[r].route = "get_post") =>
            UNCHANGED <<accounts, users, posts, comments>>

Creates(r, route) ==
    /\ req[r].route = route
    /\ req[r].pc # "done"
    /\ req'[r].pc = "done"

\* Every step that adds Post or Comment rows is the answer to a request of
\* that route, and the author of each added row is the user the middleware
\* resolved for that request: the owner of its token.
C14_AuthorStep ==
    /\ posts' # posts =>
         \E r \in ReqIds :
             /\ Creates(r, "post")
             /\ req[r].verdict = "user"
             /\ \A p \in posts' \ posts :
                    /\ p.authorId = req[r].user.id
                    /\ p.authorId = TokenOwner(req[r].token)
    /\ comments' # comments =>
         \E r \in ReqIds :
             /\ Creates(r, "comment")
             /\ req[r].verdict = "user"
             /\ \A c \in comments' \ comments :
                    /\ c.authorId = req[r].user.id
                    /\ c.authorId = TokenOwner(req[r].token)

\* C14: every Post and every Comment created has authorId equal to the
\* provider user id that the middleware resolved for the creating request;
\* no value supplied in the request body can change the stored author.
C14_AuthorIsCaller == [][C14_AuthorStep]_vars

\* A post was created for a request whose body named the second user, who
\* has a row, as its author; the post's author is the first user.
C14_Witness ==
    \E r \in ReqIds :
        /\ req[r].route = "post" /\ Done(r) /\ req[r].status = 200
        /\ req[r].authorId = Str(2)
        /\ req[r].user.id = 1
        /\ UserById(2) # {}
        /\ \E p \in posts : p.authorId = 1

\* The signup in slot r has asked the provider to create an account.
SignUpRequested(r) ==
    \/ req[r].pc \in {"signup_signUp", "signup_create"}
    \/ "account" \in req[r].wrote
    \/ req[r].error = "provider: signup refused"

\* C15: a signup whose email already belongs to a provider account but has
\* no local User row is stopped by the provider's listing: it fails with
\* DuplicateUser (400), without asking the provider to create an account and
\* without creating a local row.
C15_ListingStopsSignup ==
    \A r \in ReqIds :
        (req[r].route = "signup" /\ req[r].hadAccount /\ ~req[r].hadUser) =>
            /\ ~SignUpRequested(r)
            /\ Done(r) =>
                 /\ req[r].status = 400
                 /\ req[r].error = DuplicateUser
                 /\ req[r].wrote = {}

\* The request in slot r is a signup for email e, which neither the provider
\* nor the store held when the request arrived.
FreshSignup(r, e) ==
    /\ req[r].route = "signup"
    /\ req[r].email = e
    /\ ~req[r].hadAccount
    /\ ~req[r].hadUser

InFlight(r) == req[r].pc \notin {"idle", "done"}

\* Once signalled both calls are made, and the process has exited only if
\* both have settled.
C16_Order ==
    /\ shutdown.signalled <=> shutdown.disconnect # "idle"
    /\ shutdown.signalled <=> shutdown.signOut # "idle"
    /\ shutdown.exited =>
         shutdown.disconnect = "done" /\ shutdown.signOut = "done"

\* The step that takes the signal makes both calls; neither call is made
\* by a later step.
C16_StartStep ==
    /\ (~shutdown.signalled /\ shutdown'.signalled) =>
         /\ shutdown'.disconnect = "pending"
         /\ shutdown'.signOut = "pending"
    /\ shutdown.disconnect = "idle" /\ shutdown'.disconnect # "idle" =>
         shutdown.signOut = "idle" /\ shutdown'.signOut # "idle"

C16_Signalled == shutdown.signalled

C16_Exited == shutdown.exited

\* C16: after a termination signal the process starts the store's
\* disconnect and the provider's sign-out without waiting for one before
\* starting the other, eventually exits, and never exits before both have
\* finished; requests in flight, which nothing obliges to progress, do not
\* delay the exit.
C16_Shutdown ==
    /\ []C16_Order
    /\ [][C16_StartStep]_vars
    /\ (C16_Signalled ~> C16_Exited)

\* The process has exited while a signup is between its account and its
\* row.
C16_Witness ==
    /\ shutdown.exited
    /\ \E r \in ReqIds :
           /\ InFlight(r)
           /\ req[r].pc = "signup_create"

====
